---- MODULE Spec2Model ----
(***************************************************************************)
(* The force-directed graph view of src/components/NetworkGraph.tsx: the   *)
(* render effect that builds a d3 force simulation for the GraphData prop, *)
(* its cleanup, the resize effect, the d3-drag handlers and the node click *)
(* handler.  Coordinates are one abstract axis (the handlers always write  *)
(* fx and fy together, and x and y are treated alike by every line of the  *)
(* component), so x, vx and fx stand for the pairs (x,y), (vx,vy), (fx,fy).*)
(* The d3-zoom behaviour bound to the svg element is modelled with it, and *)
(* retryWithBackoff of src/services/geminiService.ts beside it.            *)
(***************************************************************************)
EXTENDS Integers, Sequences, FiniteSets, TLC

\* Bounds of the model.
MaxGen == 2        \* simulations built over a run (render-effect runs that reach line 73)
MaxCoord == 1      \* simulation coordinates are 0..MaxCoord
AlphaStart == 2    \* ticks a fresh simulation needs to cool below alphaMin
MaxPan == 1        \* the viewport translation stays in -MaxPan..MaxPan
WheelFactor == 8   \* factor by which one wheel or pinch event scales the viewport

Coord == 0..MaxCoord

\* null of fx/fy; a pin at v is <<v>>.
Null == <<>>

\* simulation.alphaTarget(0.3): a raised target has level 1, between
\* alphaMin (level 0) and the initial alpha (level AlphaStart).
AlphaTargetDrag == 1

\* d3.drag().clickDistance() is not called: d3's default click distance.
clickDistance == 0

\* useState({ width: 800, height: 600 }) and the container widths a resize can report.
DefaultWidth == 800
Widths == {800, 1024}

Pointers == {"mouse", "touch"}

\* d3.zoom().scaleExtent([0.1, 4]); scales are counted in tenths
MinScale == 1
MaxScale == 40

\* d3.zoomIdentity: scale 1, translation 0
zoomIdentity == [k |-> 10, x |-> 0]

\* pixel distances of a pointer from where it was pressed: none, under 2px, over 2px
Distances == {0, 1, 3}

----------------------------------------------------------------------------
\* GraphData values handed to the component.

AnsanCity == [id |-> "AnsanCity", label |-> "City Hall", group |-> "Organization", description |-> "local government"]
Foreigners == [id |-> "Foreigners", label |-> "Foreign residents", group |-> "Beneficiary", description |-> "residents"]

Link(s, t, r) == [source |-> s, target |-> t, relation |-> r]

INITIAL_GRAPH == [nodes |-> <<AnsanCity, Foreigners>>,
                  links |-> <<Link("AnsanCity", "Foreigners", "manages")>>]

\* a structured search result that shares the id AnsanCity with INITIAL_GRAPH
PolicyGraph == [nodes |-> <<AnsanCity>>, links |-> <<>>]

\* a result with no nodes
EmptyGraph == [nodes |-> <<>>, links |-> <<>>]

\* a result with a link whose target is no node's id
DanglingGraph == [nodes |-> <<AnsanCity, Foreigners>>,
                  links |-> <<Link("AnsanCity", "Foreigners", "manages"),
                              Link("AnsanCity", "Z", "provides")>>]

GraphValues == {INITIAL_GRAPH, PolicyGraph, EmptyGraph, DanglingGraph}

----------------------------------------------------------------------------
\* Node colours.

GROUP_COLORS ==
  [Policy |-> "#4285F4", Organization |-> "#EA4335", Beneficiary |-> "#34A853",
   Requirement |-> "#FBBC04", Concept |-> "#A142F4", Table |-> "#202124",
   Column |-> "#5F6368", DataPoint |-> "#DADCE0"]

\* GROUP_COLORS is an object literal: besides its own properties it has those
\* it inherits from Object.prototype, whose values are functions or objects.
ObjectPrototype ==
  [constructor |-> "function Object() { [native code] }",
   toString |-> "function toString() { [native code] }",
   hasOwnProperty |-> "function hasOwnProperty() { [native code] }",
   __proto__ |-> "[object Object]"]

\* GROUP_COLORS[group]: the own property, else the inherited one, else undefined
Lookup(group) ==
  IF group \in DOMAIN GROUP_COLORS THEN GROUP_COLORS[group]
  ELSE IF group \in DOMAIN ObjectPrototype THEN ObjectPrototype[group]
  ELSE "undefined"

\* d => GROUP_COLORS[d.group] || '#94a3b8' (every value Lookup finds is truthy),
\* as attr() writes it to the stroke and fill attributes
color(group) ==
  IF Lookup(group) = "undefined" THEN "#94a3b8" ELSE Lookup(group)

\* a GraphData value with one node of the group
ColorGraph(group) ==
  [nodes |-> <<[id |-> "N", label |-> "node", group |-> group, description |-> "d"]>>,
   links |-> <<>>]

\* group values: the palette's, and others a GraphData parsed from JSON may hold
Groups == DOMAIN GROUP_COLORS \cup {"", "Unknown", "policy", "constructor", "toString"}

----------------------------------------------------------------------------
VARIABLES
  data,        \* the data prop (App's graphData)
  dimensions,  \* the dimensions state: its width
  mounted,     \* the component is mounted (App's viewMode is 'graph')
  crashed,     \* an effect threw: React has unmounted the tree
  sims,        \* every simulation built so far, in order of creation
  svg,         \* index of the simulation whose visuals are the svg's children, 0 if none
  cleanup,     \* index of the simulation the pending effect cleanup stops, 0 if none
  gestures,    \* d3-drag's gestures: per pointer, the session in progress
  onNodeClick, \* the arguments onNodeClick received in the last step
  zoom,        \* the transform d3-zoom keeps on the svg element (its __zoom)
  transform,   \* the transform attribute of the g element that holds the visuals
  pan,         \* d3-zoom's mouse gesture: index of the simulation built with its handler, 0 if none
  retry,       \* the retryWithBackoff call in progress
  drawn,       \* the attributes of the visuals in the svg: colours and placement
  app,         \* App's state other than graphData: status, selectedNode, tables, ...
  procs,       \* the invocations of App's async handlers that wait at an await
  last         \* the operation of the last step (history, read by the claims only)

vars == <<data, dimensions, mounted, crashed, sims, svg, cleanup, gestures, onNodeClick,
          zoom, transform, pan, retry, drawn, app, procs, last>>

appVars == <<app, procs>>

\* the record of an operation in last; a release also records the gesture it ended
Op(o) == [op |-> o, maxd |-> 0, sim |-> 0, node |-> 0]

NoGesture == [sim |-> 0, node |-> 0, sx |-> 0, maxd |-> 0]

Ids(d) == {d.nodes[i].id : i \in 1..Len(d.nodes)}

\* d3-force's initial placement of node i (a function of the index alone).
InitialX(i) == (i - 1) % (MaxCoord + 1)

\* nodes = data.nodes.map(d => ({ ...d })), then forceSimulation's initializeNodes.
CopyNodes(d) ==
  [i \in 1..Len(d.nodes) |->
     [id |-> d.nodes[i].id, label |-> d.nodes[i].label, group |-> d.nodes[i].group,
      description |-> d.nodes[i].description,
      x |-> InitialX(i), vx |-> 0, fx |-> Null]]

\* links = data.links.map(d => ({ ...d }))
CopyLinks(d) == d.links

\* a component whose simulation runs on the caller's node objects themselves
\* (nodes = data.nodes): what the simulation writes shows in the caller's data
handed_aliased(d, s) ==
  IF /\ Len(d.nodes) = Len(s.nodes)
     /\ \A i \in 1..Len(d.nodes) : d.nodes[i].id = s.nodes[i].id
    THEN [d EXCEPT !.nodes = s.nodes]
    ELSE d

\* The caller's GraphData d after simulation s and the drag handlers have
\* written to s's nodes and links: these are the spread copies of lines 61-62,
\* so no write reaches the caller's objects.
handed(d, s) == d

\* forceLink's find(nodeById, id) throws "node not found" for an id of no node.
NodeNotFound(d) ==
  \E k \in 1..Len(d.links) : d.links[k].source \notin Ids(d) \/ d.links[k].target \notin Ids(d)

\* d3.forceSimulation(nodes): alpha 1, alphaTarget 0, timer started.
forceSimulation(d, width) ==
  [nodes |-> CopyNodes(d), links |-> CopyLinks(d), alpha |-> AlphaStart, alphaTarget |-> 0,
   running |-> TRUE, stopped |-> FALSE, center |-> width \div 2]

\* simulation.stop() in the effect cleanup (no cleanup is pending when g = 0).
Stop(ss, g) ==
  IF g = 0 THEN ss ELSE [ss EXCEPT ![g].running = FALSE, ![g].stopped = TRUE]

\* What can still reach simulation g: the svg's visuals (their drag handlers),
\* the pending cleanup, its own timer, and the gestures holding one of its nodes.
Reachable(ss, g, sv, cl, gs) ==
  \/ sv = g
  \/ cl = g
  \/ ss[g].running
  \/ \E p \in Pointers : gs[p].sim = g

\* A simulation nothing reaches is garbage.
Collected(s) ==
  [nodes |-> <<>>, links |-> <<>>, alpha |-> 0, alphaTarget |-> 0,
   running |-> FALSE, stopped |-> s.stopped, center |-> 0]

\* A simulation that has no visuals in the svg and is not the current effect's:
\* nothing draws or reads its nodes' positions any more. Its timer, alpha,
\* alphaTarget and pins stay in the model; its positions and velocities are
\* not tracked.
Detached(s) ==
  [s EXCEPT !.nodes = [i \in 1..Len(s.nodes) |-> [s.nodes[i] EXCEPT !.x = 0, !.vx = 0]],
            !.center = 0]

\* The svg has no visuals.
NoVisuals == [color |-> <<>>, at |-> Null]

\* lines 104-139: the node visuals of the copies ns, each with its stroke and
\* fill; no visual is placed before the first tick
appended(ns) == [color |-> [i \in 1..Len(ns) |-> color(ns[i].group)], at |-> Null]

Collect(ss, sv, cl, gs) ==
  [g \in 1..Len(ss) |->
     IF ~Reachable(ss, g, sv, cl, gs) THEN Collected(ss[g])
     ELSE IF sv # g /\ cl # g THEN Detached(ss[g])
     ELSE ss[g]]

----------------------------------------------------------------------------
\* The render effect (useEffect with deps [data, dimensions, onNodeClick]):
\* the previous run's cleanup, then the effect body for d, where line 73
\* builds the simulation sim. When the effect throws React unmounts the tree,
\* and the svg element goes with it.
Effect(d, sim) ==
  LET stopped == Stop(sims, cleanup) IN
  IF Len(d.nodes) = 0
    THEN \* line 55: return before the svg is cleared; no cleanup is registered
         /\ svg' = svg
         /\ cleanup' = 0
         /\ crashed' = crashed
         /\ mounted' = TRUE
         /\ UNCHANGED <<zoom, transform, pan, drawn>>
         /\ sims' = Collect(stopped, svg', cleanup', gestures)
    ELSE IF NodeNotFound(d)
    THEN \* line 74 throws after line 58 cleared the svg and line 73 started the timer
         /\ svg' = 0
         /\ cleanup' = 0
         /\ crashed' = TRUE
         /\ mounted' = FALSE
         /\ zoom' = zoomIdentity
         /\ transform' = zoomIdentity
         /\ pan' = 0
         /\ drawn' = NoVisuals
         /\ sims' = Collect(Append(stopped, sim), svg', cleanup', gestures)
    ELSE \* line 64 appends a new g, which has no transform attribute; line 71
         \* binds the new zoom behaviour to the svg element, which keeps its __zoom
         /\ svg' = Len(sims) + 1
         /\ cleanup' = Len(sims) + 1
         /\ crashed' = crashed
         /\ mounted' = TRUE
         /\ transform' = zoomIdentity
         /\ drawn' = appended(sim.nodes)
         /\ UNCHANGED <<zoom, pan>>
         /\ sims' = Collect(Append(stopped, sim), svg', cleanup', gestures)

\* the copies taking over position, velocity and pin of the node with the same
\* id in the simulation displayed before
CarryOver(d) ==
  [i \in 1..Len(d.nodes) |->
     LET same == IF svg = 0 THEN {}
                 ELSE {j \in 1..Len(sims[svg].nodes) : sims[svg].nodes[j].id = d.nodes[i].id}
     IN IF same = {}
          THEN [id |-> d.nodes[i].id, label |-> d.nodes[i].label, group |-> d.nodes[i].group,
                description |-> d.nodes[i].description,
                x |-> InitialX(i), vx |-> 0, fx |-> Null]
          ELSE LET old == sims[svg].nodes[CHOOSE j \in same : TRUE] IN
               [id |-> d.nodes[i].id, label |-> d.nodes[i].label, group |-> d.nodes[i].group,
                description |-> d.nodes[i].description,
                x |-> old.x, vx |-> old.vx, fx |-> old.fx]]

\* a render effect that diffs by id against the simulation displayed before
RenderEffect_carryOver(d, width) ==
  Effect(d, [forceSimulation(d, width) EXCEPT !.nodes = CarryOver(d)])

RenderEffect(d, width) == Effect(d, forceSimulation(d, width))

CanBuild(d) == Len(d.nodes) = 0 \/ Len(sims) < MaxGen

----------------------------------------------------------------------------
\* retryWithBackoff(operation, retries = 3, delay = 2000) of geminiService.ts.

DefaultRetries == 3
DefaultDelay == 2000

\* Errors an operation may reject with: status, code (0 when absent) and the
\* words of the message (Null when the error has no message).
Error(st, c, m) == [status |-> st, code |-> c, message |-> m]

StatusError == Error(429, 0, <<"Too", "Many", "Requests">>)
CodeError == Error(0, 429, Null)
Message429 == Error(0, 0, <<"got", "status", "429">>)
MessageQuota == Error(0, 0, <<"Quota", "exceeded">>)
MessageExhausted == Error(0, 0, <<"RESOURCE_EXHAUSTED">>)
MessageLowerQuota == Error(0, 0, <<"quota", "exceeded">>)
ServerError == Error(500, 500, <<"Internal", "error">>)
BareError == Error(0, 0, Null)

Errors == {StatusError, CodeError, Message429, MessageQuota, MessageExhausted,
           MessageLowerQuota, ServerError, BareError}

\* error.message?.includes(word): undefined, so falsy, when there is no message
includes(message, word) ==
  message # Null /\ \E k \in 1..Len(message) : message[k] = word

\* a classification by the status alone
isRateLimit_statusOnly(error) == error.status = 429

\* lines 14-19
isRateLimit(error) ==
  \/ error.status = 429
  \/ error.code = 429
  \/ includes(error.message, "429")
  \/ includes(error.message, "Quota")
  \/ includes(error.message, "RESOURCE_EXHAUSTED")

\* The call in progress: where it is, the retries and delay of the current
\* invocation, and its history: the errors the operation's calls rejected
\* with, the delays waited, the number of calls of the operation, and, when
\* it has thrown, the error its caller receives.
Idle ==
  [pc |-> "idle", retries |-> DefaultRetries, delay |-> DefaultDelay,
   calls |-> 0, errors |-> <<>>, waits |-> <<>>, thrown |-> Null]

\* a catch block that retries every rate-limit error, whatever retries is
caught_noLimit(r, error) ==
  IF isRateLimit(error)
    THEN [r EXCEPT !.pc = "waiting", !.calls = @ + 1, !.errors = Append(@, error)]
    ELSE [r EXCEPT !.pc = "thrown", !.calls = @ + 1, !.errors = Append(@, error),
                   !.thrown = <<error>>]

\* lines 13-27: the catch block, for the error the operation rejected with
caught(r, error) ==
  IF isRateLimit(error) /\ r.retries > 0
    THEN [r EXCEPT !.pc = "waiting", !.calls = @ + 1, !.errors = Append(@, error)]
    ELSE [r EXCEPT !.pc = "thrown", !.calls = @ + 1, !.errors = Append(@, error),
                   !.thrown = <<error>>]

\* lines 23-24: the timer fires after delay ms, then
\* retryWithBackoff(operation, retries - 1, delay * 2)
retried(r) ==
  [r EXCEPT !.pc = "calling", !.retries = @ - 1, !.delay = @ * 2,
            !.waits = Append(@, r.delay)]

----------------------------------------------------------------------------
\* App.tsx: the state of App (lines 19-40). A status message is the sequence
\* of its words; the Korean texts are written by their English meaning.

\* '검색 준비 완료'
Ready == <<"ready", "to", "search">>

Status(s, m) == [step |-> s, message |-> m]

\* the datasetId of the two tasks of lines 37-40
InitialTasks == <<"d1", "d2">>

\* selectedNode null, no sources, no tables, no plan; tasks holds the
\* datasetId of each task
AppInit ==
  [appMode |-> "policy", viewMode |-> "graph", status |-> Status("idle", Ready),
   selectedNode |-> Null, sources |-> <<>>, rawSummary |-> <<>>,
   tables |-> <<>>, selectedTableId |-> Null, currentPlan |-> Null,
   tasks |-> InitialTasks]

\* App's initial state: graphData = INITIAL_GRAPH, viewMode = 'graph'; the
\* component has mounted and its render effect has run with the default dimensions.
Init ==
  /\ data = INITIAL_GRAPH
  /\ dimensions = DefaultWidth
  /\ mounted = TRUE
  /\ crashed = FALSE
  /\ sims = <<forceSimulation(INITIAL_GRAPH, DefaultWidth)>>
  /\ svg = 1
  /\ cleanup = 1
  /\ gestures = [p \in Pointers |-> NoGesture]
  /\ onNodeClick = <<>>
  /\ zoom = zoomIdentity
  /\ transform = zoomIdentity
  /\ pan = 0
  /\ retry = Idle
  /\ drawn = appended(CopyNodes(INITIAL_GRAPH))
  /\ app = AppInit
  /\ procs = <<>>
  /\ last = Op("mount")

\* setGraphData(value): a new GraphData object; the effect re-runs when mounted.
SetGraphData(d) ==
  /\ ~crashed
  /\ CanBuild(d)
  /\ data' = d
  /\ IF mounted
       THEN RenderEffect(d, dimensions)
       ELSE UNCHANGED <<mounted, crashed, sims, svg, cleanup, zoom, transform, pan, drawn>>
  /\ UNCHANGED <<dimensions, gestures, retry>>
  /\ onNodeClick' = <<>>
  /\ last' = Op("data")

\* window 'resize' -> updateDimensions -> setDimensions({...}): always a new
\* object, so the render effect re-runs.
Resize(w) ==
  /\ mounted /\ ~crashed
  /\ CanBuild(data)
  /\ dimensions' = w
  /\ RenderEffect(data, w)
  /\ UNCHANGED <<data, gestures, retry>>
  /\ onNodeClick' = <<>>
  /\ last' = Op("resize")

\* viewMode leaves 'graph': the component unmounts, its cleanup runs and React
\* removes the svg element, and with it the zoom state and any gesture on it.
UnmountWith(d) ==
  /\ mounted /\ ~crashed
  /\ data' = d
  /\ mounted' = FALSE
  /\ svg' = 0
  /\ cleanup' = 0
  /\ sims' = Collect(Stop(sims, cleanup), svg', cleanup', gestures)
  /\ zoom' = zoomIdentity
  /\ transform' = zoomIdentity
  /\ pan' = 0
  /\ drawn' = NoVisuals
  /\ UNCHANGED <<dimensions, crashed, gestures, retry>>
  /\ onNodeClick' = <<>>
  /\ last' = Op("unmount")

Unmount == UnmountWith(data)

\* viewMode returns to 'graph': a new component instance with the default dimensions.
MountWith(d) ==
  /\ ~mounted /\ ~crashed
  /\ CanBuild(d)
  /\ data' = d
  /\ dimensions' = DefaultWidth
  /\ RenderEffect(d, DefaultWidth)
  /\ UNCHANGED <<gestures, retry>>
  /\ onNodeClick' = <<>>
  /\ last' = Op("mount")

Mount == MountWith(data)

----------------------------------------------------------------------------
\* One tick of a simulation's timer (d3-force step): alpha moves toward
\* alphaTarget, the forces set the velocities, a free node moves by its
\* velocity and a pinned node is put on its pin; below alphaMin the timer stops.
Cool(alpha, target) ==
  IF alpha > target THEN alpha - 1 ELSE IF alpha < target THEN alpha + 1 ELSE alpha

\* a tick that integrates every node, pinned or not
TickNode_integratesPinned(n, v) == [n EXCEPT !.vx = v, !.x = n.x + v]

TickNode(n, v) ==
  IF n.fx = Null
    THEN [n EXCEPT !.vx = v, !.x = n.x + v]
    ELSE [n EXCEPT !.vx = 0, !.x = n.fx[1]]

step(s, v) ==
  LET a == Cool(s.alpha, s.alphaTarget) IN
  [s EXCEPT !.alpha = a,
            !.nodes = [i \in 1..Len(s.nodes) |-> TickNode(s.nodes[i], v[i])],
            !.running = (a >= 1)]

\* the velocities the forces may produce: any that keep a free node in range
Velocities(s) ==
  {v \in [1..Len(s.nodes) -> {-1, 0, 1}] :
     \A i \in 1..Len(s.nodes) :
       IF s.nodes[i].fx = Null THEN s.nodes[i].x + v[i] \in Coord ELSE v[i] = 0}

\* the position of the node a link end refers to (forceLink resolved the id)
At(s, id) == s.nodes[CHOOSE i \in 1..Len(s.nodes) : s.nodes[i].id = id].x

\* a tick listener that also brakes the nodes: d.vx = 0
ticked_brakes(s) ==
  [sim |-> [s EXCEPT !.nodes = [i \in 1..Len(s.nodes) |-> [s.nodes[i] EXCEPT !.vx = 0]]],
   at |-> [nodes |-> [i \in 1..Len(s.nodes) |-> s.nodes[i].x],
           links |-> [k \in 1..Len(s.links) |->
                        <<At(s, s.links[k].source), At(s, s.links[k].target)>>],
           labels |-> [k \in 1..Len(s.links) |->
                         At(s, s.links[k].source) + At(s, s.links[k].target)]]]

\* a tick listener that puts each link label on the link's source
ticked_labelAtSource(s) ==
  [sim |-> s,
   at |-> [nodes |-> [i \in 1..Len(s.nodes) |-> s.nodes[i].x],
           links |-> [k \in 1..Len(s.links) |->
                        <<At(s, s.links[k].source), At(s, s.links[k].target)>>],
           labels |-> [k \in 1..Len(s.links) |-> 2 * At(s, s.links[k].source)]]]

\* lines 154-167, the "tick" listener, for the simulation s that has just
\* stepped: the simulation as the listener leaves it, and the placement it
\* writes: each node visual's translate, each line's ends, and each link
\* label's x, counted in halves: (d.source.x + d.target.x) / 2.
ticked(s) ==
  [sim |-> s,
   at |-> [nodes |-> [i \in 1..Len(s.nodes) |-> s.nodes[i].x],
           links |-> [k \in 1..Len(s.links) |->
                        <<At(s, s.links[k].source), At(s, s.links[k].target)>>],
           labels |-> [k \in 1..Len(s.links) |->
                         At(s, s.links[k].source) + At(s, s.links[k].target)]]]

\* Line 154 registered the listener on every simulation whose effect run got
\* that far: not on one whose line 74 threw.
Listening(s) == ~NodeNotFound(s)

Tick(g) ==
  /\ sims[g].running
  /\ \E v \in Velocities(sims[g]) :
       LET stepped == step(sims[g], v)
           after == IF Listening(stepped) THEN ticked(stepped).sim ELSE stepped
       IN
       /\ sims' = Collect([sims EXCEPT ![g] = after], svg, cleanup, gestures)
       /\ drawn' = IF g = svg THEN [drawn EXCEPT !.at = ticked(stepped).at] ELSE drawn
       /\ data' = handed(data, after)
  /\ UNCHANGED <<dimensions, mounted, crashed, svg, cleanup, gestures>>
  /\ UNCHANGED <<zoom, transform, pan, retry>>
  /\ onNodeClick' = <<>>
  /\ last' = Op("tick")

----------------------------------------------------------------------------
\* d3-drag's count of active gestures of the drag behaviour built with simulation g
\* (each effect run builds its own d3.drag()).
Active(gs, g) == Cardinality({p \in Pointers : gs[p].sim = g})

\* dragstarted raising the target without restarting the timer
dragstarted_noRestart(s, i, active) ==
  LET t == IF active = 0 THEN [s EXCEPT !.alphaTarget = AlphaTargetDrag] ELSE s
  IN [t EXCEPT !.nodes[i].fx = <<s.nodes[i].x>>]

\* dragstarted(event, d), with event.active the count before this gesture
dragstarted(s, i, active) ==
  LET t == IF active = 0
             THEN [s EXCEPT !.alphaTarget = AlphaTargetDrag, !.running = TRUE]
             ELSE s
  IN [t EXCEPT !.nodes[i].fx = <<s.nodes[i].x>>]

\* dragged also stopping the node: d.vx = 0
dragged_zeroVelocity(s, i, x) == [s EXCEPT !.nodes[i].fx = <<x>>, !.nodes[i].vx = 0]

\* dragged(event, d), with event.x = x
dragged(s, i, x) == [s EXCEPT !.nodes[i].fx = <<x>>]

\* dragended without lines 182-183: the pin is never released
dragended_keepsPin(s, i, active) ==
  IF active = 0 THEN [s EXCEPT !.alphaTarget = 0] ELSE s

\* dragended releasing the pin under the same test as the alphaTarget reset
dragended_lastOnly(s, i, active) ==
  IF active = 0 THEN [s EXCEPT !.alphaTarget = 0, !.nodes[i].fx = Null] ELSE s

\* dragended without line 181: the target is never lowered
dragended_keepsTarget(s, i, active) == [s EXCEPT !.nodes[i].fx = Null]

\* dragended(event, d), with event.active the count after this gesture
dragended(s, i, active) ==
  LET t == IF active = 0 THEN [s EXCEPT !.alphaTarget = 0] ELSE s
  IN [t EXCEPT !.nodes[i].fx = Null]

Max(a, b) == IF a > b THEN a ELSE b

\* a drag behaviour that never suppresses the click after a drag
mousemoving_never(maxd) == FALSE

\* d3-drag's mousemoving: the pointer went farther than clickDistance from
\* where it was pressed, so the click that follows the release is suppressed.
mousemoving(maxd) == maxd * maxd > clickDistance * clickDistance

\* mousedown / touchstart on the visual of node i: d3-drag starts a gesture
\* and stops the event's propagation, so the svg's zoom listeners do not see it.
\* (A mouse that is panning is already down.)
Press(p, i) ==
  /\ svg # 0
  /\ gestures[p] = NoGesture
  /\ p = "mouse" => pan = 0
  /\ i \in 1..Len(sims[svg].nodes)
  /\ gestures' = [gestures EXCEPT ![p] =
                    [sim |-> svg, node |-> i, sx |-> sims[svg].nodes[i].x, maxd |-> 0]]
  /\ sims' = Collect([sims EXCEPT ![svg] = dragstarted(sims[svg], i, Active(gestures, svg))],
                     svg, cleanup, gestures')
  /\ data' = handed(data, dragstarted(sims[svg], i, Active(gestures, svg)))
  /\ UNCHANGED <<dimensions, mounted, crashed, svg, cleanup>>
  /\ UNCHANGED <<zoom, transform, pan, retry, drawn>>
  /\ onNodeClick' = <<>>
  /\ last' = Op("press")

\* mousemove / touchmove of a pressed pointer: the event is dist pixels from
\* where the pointer was pressed and maps to simulation coordinate x (the
\* subject's position at the press when the pointer is back on that pixel).
Move(p, x, dist) ==
  LET g == gestures[p] IN
  /\ g # NoGesture
  /\ dist = 0 => x = g.sx
  /\ gestures' = [gestures EXCEPT ![p].maxd = Max(g.maxd, dist)]
  /\ sims' = Collect([sims EXCEPT ![g.sim] = dragged(sims[g.sim], g.node, x)],
                     svg, cleanup, gestures')
  /\ data' = handed(data, dragged(sims[g.sim], g.node, x))
  /\ UNCHANGED <<dimensions, mounted, crashed, svg, cleanup>>
  /\ UNCHANGED <<zoom, transform, pan, retry, drawn>>
  /\ onNodeClick' = <<>>
  /\ last' = Op("move")

\* a click handler that hands over the id alone: onNodeClick({ id: d.id })
click_idOnly(d) == <<[id |-> d.id]>>

\* the click handler of a node visual: onNodeClick(d)
click(d) == <<d>>

\* mouseup / touchend: the gesture ends; the browser then dispatches click to
\* the node visual unless d3-drag suppresses it or the visual is gone.
Release(p) ==
  LET g == gestures[p]
      ended == dragended(sims[g.sim], g.node, Active(gestures, g.sim) - 1)
  IN
  /\ g # NoGesture
  /\ gestures' = [gestures EXCEPT ![p] = NoGesture]
  /\ onNodeClick' = IF ~mousemoving(g.maxd) /\ svg = g.sim
                      THEN click(ended.nodes[g.node])
                      ELSE <<>>
  /\ sims' = Collect([sims EXCEPT ![g.sim] = ended], svg, cleanup, gestures')
  /\ data' = handed(data, ended)
  /\ UNCHANGED <<dimensions, mounted, crashed, svg, cleanup>>
  /\ UNCHANGED <<zoom, transform, pan, retry, drawn>>
  /\ last' = [op |-> "release", maxd |-> g.maxd, sim |-> g.sim, node |-> g.node]

----------------------------------------------------------------------------
\* d3-zoom on the svg element.

Min(a, b) == IF a < b THEN a ELSE b

\* a zoom behaviour without scaleExtent's upper end
clamp_noMax(k) == Max(MinScale, k)

\* d3-zoom: k = Math.max(scaleExtent[0], Math.min(scaleExtent[1], k))
clamp(k) == Max(MinScale, Min(MaxScale, k))

\* the "zoom" listener of the behaviour built with simulation g, for the event
\* transform t: g.attr("transform", event.transform) on that effect run's g
\* element, which is on display only while its visuals are the svg's children
zoomed(g, t) == IF g = svg THEN t ELSE transform

\* a wheel handler that also reheats the displayed simulation
Wheel_reheats(up) ==
  LET k == clamp(IF up THEN zoom.k * WheelFactor ELSE zoom.k \div WheelFactor) IN
  /\ svg # 0
  /\ k # zoom.k
  /\ zoom' = [zoom EXCEPT !.k = k]
  /\ transform' = zoomed(svg, zoom')
  /\ sims' = [sims EXCEPT ![svg].alpha = AlphaStart, ![svg].running = TRUE]
  /\ UNCHANGED <<data, dimensions, mounted, crashed, svg, cleanup, gestures, pan, retry, drawn>>
  /\ onNodeClick' = <<>>
  /\ last' = Op("wheel")

\* wheel (or pinch) on the svg, over the canvas or over a node: the current
\* behaviour scales __zoom within scaleExtent; d3-zoom ignores an event that
\* would not change the scale.
Wheel(up) ==
  LET k == clamp(IF up THEN zoom.k * WheelFactor ELSE zoom.k \div WheelFactor) IN
  /\ svg # 0
  /\ k # zoom.k
  /\ zoom' = [zoom EXCEPT !.k = k]
  /\ transform' = zoomed(svg, zoom')
  /\ UNCHANGED <<data, dimensions, mounted, crashed, sims, svg, cleanup, gestures, pan, retry, drawn>>
  /\ onNodeClick' = <<>>
  /\ last' = Op("wheel")

\* a pan press that also starts a node-drag session on node 1
PanPress_dragsNode ==
  /\ svg # 0
  /\ pan = 0
  /\ gestures["mouse"] = NoGesture
  /\ pan' = svg
  /\ gestures' = [gestures EXCEPT !["mouse"] =
                    [sim |-> svg, node |-> 1, sx |-> sims[svg].nodes[1].x, maxd |-> 0]]
  /\ sims' = Collect([sims EXCEPT ![svg] = dragstarted(sims[svg], 1, Active(gestures, svg))],
                     svg, cleanup, gestures')
  /\ UNCHANGED <<data, dimensions, mounted, crashed, svg, cleanup, zoom, transform, retry, drawn>>
  /\ onNodeClick' = <<>>
  /\ last' = Op("panpress")

\* mousedown on the svg outside every node visual: d3-zoom starts a mouse
\* gesture with the current behaviour's listeners.
PanPress ==
  /\ svg # 0
  /\ pan = 0
  /\ gestures["mouse"] = NoGesture
  /\ pan' = svg
  /\ UNCHANGED <<data, dimensions, mounted, crashed, sims, svg, cleanup, gestures,
                 zoom, transform, retry, drawn>>
  /\ onNodeClick' = <<>>
  /\ last' = Op("panpress")

\* mousemove of the panning mouse (d3-zoom listens on the window): __zoom is
\* translated by dx and the gesture's "zoom" listener runs.
PanMove(dx) ==
  /\ pan # 0
  /\ zoom.x + dx \in -MaxPan..MaxPan
  /\ zoom' = [zoom EXCEPT !.x = @ + dx]
  /\ transform' = zoomed(pan, zoom')
  /\ UNCHANGED <<data, dimensions, mounted, crashed, sims, svg, cleanup, gestures, pan, retry, drawn>>
  /\ onNodeClick' = <<>>
  /\ last' = Op("panmove")

\* mouseup of the panning mouse
PanRelease ==
  /\ pan # 0
  /\ pan' = 0
  /\ UNCHANGED <<data, dimensions, mounted, crashed, sims, svg, cleanup, gestures,
                 zoom, transform, retry, drawn>>
  /\ onNodeClick' = <<>>
  /\ last' = Op("panrelease")

----------------------------------------------------------------------------
\* The steps of a retryWithBackoff call; the view is not involved.
viewVars == <<data, dimensions, mounted, crashed, sims, svg, cleanup, gestures, onNodeClick,
              zoom, transform, pan, drawn, last>>

\* a caller invokes retryWithBackoff(operation): line 12 calls the operation
Call ==
  /\ retry.pc \in {"idle", "returned", "thrown", "handled"}
  /\ retry' = [Idle EXCEPT !.pc = "calling"]
  /\ UNCHANGED <<viewVars, appVars>>

\* the operation's promise resolves: line 12 returns its value
Resolve ==
  /\ retry.pc = "calling"
  /\ retry' = [retry EXCEPT !.pc = "returned", !.calls = @ + 1]
  /\ UNCHANGED <<viewVars, appVars>>

\* the operation's promise rejects with error
Reject(error) ==
  /\ retry.pc = "calling"
  /\ retry' = caught(retry, error)
  /\ UNCHANGED <<viewVars, appVars>>

\* the timer of line 23 fires
Timeout ==
  /\ retry.pc = "waiting"
  /\ retry' = retried(retry)
  /\ UNCHANGED <<viewVars, appVars>>

RetryNext ==
  \/ Call
  \/ Resolve
  \/ \E error \in Errors : Reject(error)
  \/ Timeout

RetrySpec == Init /\ [][RetryNext]_vars

\* The operation's promise settles and the timer of line 23 fires: neither
\* stays pending for ever.
RetryFairSpec ==
  /\ Init
  /\ [][RetryNext]_vars
  /\ WF_vars(Resolve \/ \E error \in Errors : Reject(error))
  /\ WF_vars(Timeout)

----------------------------------------------------------------------------
\* App.tsx: the handlers. An async handler runs to its first await in the
\* step of the event; each later step is the continuation after an await, for
\* the value the awaited service resolved with or the error it rejected with.

MaxProcs == 2
MaxRuns == 2

\* '오류 발생' and 'API 한도 초과'
DefaultMessage == <<"error", "occurred">>
RateLimitMessage == <<"API", "limit", "exceeded">>

\* a handleError that reports every failure as the end of the work
handleError_complete(error) == Status("complete", DefaultMessage)

\* lines 107-112: the status handleError sets
handleError(error) ==
  Status("error",
         IF includes(error.message, "429") THEN RateLimitMessage
         ELSE IF error.message # Null THEN error.message
         ELSE DefaultMessage)

\* what the services resolve with
FoundSources == <<"source">>
FoundText == <<"summary">>
Plan == <<"plan">>
TableIds == {"T1", "T2"}

\* generateSchemaGraph's result: a graph of tables and columns
SchemaGraph ==
  [nodes |-> <<[id |-> "T1", label |-> "Table", group |-> "Table", description |-> "table"]>>,
   links |-> <<>>]

\* the errors a service rejects with: what retryWithBackoff threw, or the
\* Error of a missing or malformed JSON text
JsonError == Error(0, 0, <<"JSON", "failed">>)
ServiceErrors == {Message429, BareError, JsonError}

\* an invocation of a handler waiting at the await of pc; tables is the tables
\* value of the render in which the handler was created (its closure)
Proc(kind, pc, tables) == [kind |-> kind, pc |-> pc, tables |-> tables]

Remove(ps, k) == [i \in 1..(Len(ps) - 1) |-> IF i < k THEN ps[i] ELSE ps[i + 1]]

Running(kind) == {k \in 1..Len(procs) : procs[k].kind = kind}

\* App renders with graphData d (a new object when changed) and viewMode v:
\* NetworkGraph is rendered when v is 'graph' (lines 383-385).
View(d, changed, v) ==
  IF v = "graph"
    THEN IF mounted
           THEN IF changed THEN SetGraphData(d)
                ELSE UNCHANGED <<viewVars, retry>>
           ELSE MountWith(d)
    ELSE IF mounted
           THEN UnmountWith(d)
           ELSE /\ data' = d
                /\ UNCHANGED <<dimensions, mounted, crashed, sims, svg, cleanup, gestures,
                               zoom, transform, pan, drawn, retry>>
                /\ onNodeClick' = <<>>
                /\ last' = Op("data")

\* the submit controls (lines 171, 198)
SearchDisabled == app.status.step \in {"searching", "structuring"}
PlanDisabled == app.status.step = "planning"

\* lines 42-47: submit of the policy form, to the await of searchPolicies
handlePolicySearch(blank) ==
  /\ app.appMode = "policy"
  /\ ~SearchDisabled
  /\ IF blank
       THEN UNCHANGED appVars
       ELSE /\ Len(procs) < MaxProcs
            /\ app' = [app EXCEPT !.selectedNode = Null,
                                  !.status = Status("searching", <<"searching", "policies">>)]
            /\ procs' = Append(procs, Proc("search", "searchPolicies", <<>>))
  /\ View(data, FALSE, app.viewMode)

\* lines 48-52: searchPolicies resolved, to the await of structurePolicyData
searchResolved(k) ==
  /\ procs[k].pc = "searchPolicies"
  /\ app' = [app EXCEPT !.sources = FoundSources, !.rawSummary = FoundText,
                        !.status = Status("structuring", <<"building", "graph">>)]
  /\ procs' = [procs EXCEPT ![k].pc = "structurePolicyData"]
  /\ View(data, FALSE, app.viewMode)

\* lines 53-55: structurePolicyData resolved with d
structureResolved(k, d) ==
  /\ procs[k].pc = "structurePolicyData"
  /\ app' = [app EXCEPT !.status = Status("complete", <<"visualised">>),
                        !.viewMode = "graph"]
  /\ procs' = Remove(procs, k)
  /\ View(d, TRUE, "graph")

\* the catch block of a handler: handleError(error)
failed(a, error) == [a EXCEPT !.status = handleError(error)]

\* lines 56-58, 70-72, 102-104: the awaited service rejected with error
rejected(k, error) ==
  /\ app' = failed(app, error)
  /\ procs' = Remove(procs, k)
  /\ View(data, FALSE, app.viewMode)

\* lines 61-66: submit of the data form, to the await of createScrapingPlan
handleScrapingPlan(blank) ==
  /\ app.appMode = "data"
  /\ ~PlanDisabled
  /\ IF blank
       THEN UNCHANGED appVars
       ELSE /\ Len(procs) < MaxProcs
            /\ app' = [app EXCEPT !.status = Status("planning", <<"planning">>),
                                  !.currentPlan = Null]
            /\ procs' = Append(procs, Proc("plan", "createScrapingPlan", <<>>))
  /\ View(data, FALSE, app.viewMode)

\* lines 67-69: createScrapingPlan resolved
planResolved(k) ==
  /\ procs[k].pc = "createScrapingPlan"
  /\ app' = [app EXCEPT !.currentPlan = Plan,
                        !.status = Status("idle", <<"waiting", "for", "approval">>)]
  /\ procs' = Remove(procs, k)
  /\ View(data, FALSE, app.viewMode)

\* lines 75-82: click on RUN AGENT (shown while there is a plan, line 238), to
\* the awaits of the plan's steps and of generateStatisticalData
executeScraping ==
  /\ app.appMode = "data"
  /\ app.currentPlan # Null
  /\ Len(procs) < MaxProcs
  /\ Len(app.tasks) - Len(InitialTasks) + Cardinality(Running("run")) < MaxRuns
  /\ app' = [app EXCEPT !.status = Status("searching", <<"agent", "running">>)]
  /\ procs' = Append(procs, Proc("run", "generateStatisticalData", app.tables))
  /\ View(data, FALSE, app.viewMode)

\* lines 82-97: generateStatisticalData resolved with a table of the id
\* given, to the await of generateSchemaGraph
tableGenerated(k, id) ==
  /\ procs[k].pc = "generateStatisticalData"
  /\ app' = [app EXCEPT !.tables = Append(procs[k].tables, id),
                        !.selectedTableId = <<id>>,
                        !.tasks = Append(@, id),
                        !.status = Status("structuring", <<"analysing", "relations">>)]
  /\ procs' = [procs EXCEPT ![k].pc = "generateSchemaGraph",
                            ![k].tables = Append(procs[k].tables, id)]
  /\ View(data, FALSE, app.viewMode)

\* lines 97-101: generateSchemaGraph resolved with d
schemaResolved(k, d) ==
  /\ procs[k].pc = "generateSchemaGraph"
  /\ app' = [app EXCEPT !.status = Status("complete", <<"done">>),
                        !.viewMode = "table", !.currentPlan = Null]
  /\ procs' = Remove(procs, k)
  /\ View(d, TRUE, "table")

\* line 117: a tab button
TabButton(mode) ==
  LET v == IF mode = "policy" THEN "graph" ELSE "table" IN
  /\ app' = [app EXCEPT !.appMode = mode, !.viewMode = v]
  /\ UNCHANGED procs
  /\ View(data, FALSE, v)

\* lines 356-373: the view buttons; summary in the policy tab, table in the others
SetViewMode(v) ==
  /\ v = "summary" => app.appMode = "policy"
  /\ v = "table" => app.appMode # "policy"
  /\ app' = [app EXCEPT !.viewMode = v]
  /\ UNCHANGED procs
  /\ View(data, FALSE, v)

\* mousedown on the visual of node i of the displayed graph
NodePress(i) == Press("mouse", i) /\ UNCHANGED appVars

\* mouseup, and the click that follows it: onNodeClick is setSelectedNode
NodeRelease ==
  /\ Release("mouse")
  /\ app' = [app EXCEPT !.selectedNode = IF onNodeClick' = <<>> THEN @ ELSE onNodeClick']
  /\ UNCHANGED procs

AppNext ==
  \/ \E blank \in BOOLEAN : handlePolicySearch(blank)
  \/ \E k \in 1..Len(procs) : searchResolved(k)
  \/ \E k \in 1..Len(procs) : structureResolved(k, PolicyGraph)
  \/ \E k \in 1..Len(procs) : \E error \in ServiceErrors : rejected(k, error)
  \/ \E blank \in BOOLEAN : handleScrapingPlan(blank)
  \/ \E k \in 1..Len(procs) : planResolved(k)
  \/ executeScraping
  \/ \E k \in 1..Len(procs) : \E id \in TableIds : tableGenerated(k, id)
  \/ \E k \in 1..Len(procs) : schemaResolved(k, SchemaGraph)
  \/ \E mode \in {"policy", "data", "orchestration"} : TabButton(mode)
  \/ \E v \in {"graph", "summary", "table"} : SetViewMode(v)
  \/ \E i \in 1..2 : NodePress(i)
  \/ NodeRelease

AppSpec == Init /\ [][AppNext]_vars

\* A handler's catch block receives the error retryWithBackoff threw (the
\* services rethrow it unchanged): handleError(error).
Catch ==
  /\ retry.pc = "thrown"
  /\ app' = failed(app, retry.thrown[1])
  /\ retry' = [retry EXCEPT !.pc = "handled"]
  /\ UNCHANGED <<viewVars, procs>>

ReportNext ==
  \/ RetryNext
  \/ Catch

ReportSpec == Init /\ [][ReportNext]_vars

----------------------------------------------------------------------------
\* The steps of the view with the pointers ps and the GraphData values gv.
Step(ps, gv) ==
  \/ \E d \in gv : SetGraphData(d) /\ UNCHANGED appVars
  \/ \E w \in Widths : Resize(w) /\ UNCHANGED appVars
  \/ Unmount /\ UNCHANGED appVars
  \/ Mount /\ UNCHANGED appVars
  \/ \E g \in 1..Len(sims) : Tick(g) /\ UNCHANGED appVars
  \/ \E p \in ps : \E i \in 1..2 : Press(p, i) /\ UNCHANGED appVars
  \/ \E p \in ps : \E x \in Coord : \E dist \in Distances : Move(p, x, dist) /\ UNCHANGED appVars
  \/ \E p \in ps : Release(p) /\ UNCHANGED appVars

\* Every GraphData value, one pointer (the mouse).
Next == Step({"mouse"}, GraphValues)

Spec == Init /\ [][Next]_vars

\* Mouse and touch together (concurrent drag sessions), graphs with nodes.
TouchNext == Step(Pointers, GraphValues \ {EmptyGraph})

TouchSpec == Init /\ [][TouchNext]_vars

\* The mouse on nodes and on the canvas, the wheel, ticks and rebuilds.
ZoomNext ==
  \/ SetGraphData(PolicyGraph) /\ UNCHANGED appVars
  \/ \E g \in 1..Len(sims) : Tick(g) /\ UNCHANGED appVars
  \/ \E i \in 1..2 : Press("mouse", i) /\ UNCHANGED appVars
  \/ \E x \in Coord : \E dist \in Distances : Move("mouse", x, dist) /\ UNCHANGED appVars
  \/ Release("mouse") /\ UNCHANGED appVars
  \/ \E up \in BOOLEAN : Wheel(up) /\ UNCHANGED appVars
  \/ PanPress /\ UNCHANGED appVars
  \/ \E dx \in {-1, 1} : PanMove(dx) /\ UNCHANGED appVars
  \/ PanRelease /\ UNCHANGED appVars

ZoomSpec == Init /\ [][ZoomNext]_vars

\* Mouse and touch on the nodes, ticks and rebuilds for graphs with and without
\* nodes.
DragNext ==
  \/ \E d \in {PolicyGraph, EmptyGraph} : SetGraphData(d) /\ UNCHANGED appVars
  \/ \E g \in 1..Len(sims) : Tick(g) /\ UNCHANGED appVars
  \/ \E p \in Pointers : \E i \in 1..2 : Press(p, i) /\ UNCHANGED appVars
  \/ \E p \in Pointers : \E x \in Coord : \E dist \in Distances : Move(p, x, dist) /\ UNCHANGED appVars
  \/ \E p \in Pointers : Release(p) /\ UNCHANGED appVars

DragSpec == Init /\ [][DragNext]_vars

\* Mouse and touch on the nodes, ticks and a rebuild. d3-timer calls the tick
\* of every running simulation on each animation frame, so no running
\* simulation waits for its tick for ever.
FairNext ==
  \/ SetGraphData(PolicyGraph) /\ UNCHANGED appVars
  \/ \E g \in 1..Len(sims) : Tick(g) /\ UNCHANGED appVars
  \/ \E p \in Pointers : \E i \in 1..2 : Press(p, i) /\ UNCHANGED appVars
  \/ \E p \in Pointers : \E x \in Coord : \E dist \in Distances : Move(p, x, dist) /\ UNCHANGED appVars
  \/ \E p \in Pointers : Release(p) /\ UNCHANGED appVars

\* One-node graphs of every group value, ticks and clicks.
ColorNext ==
  \/ \E group \in Groups : SetGraphData(ColorGraph(group)) /\ UNCHANGED appVars
  \/ \E g \in 1..Len(sims) : Tick(g) /\ UNCHANGED appVars
  \/ \E i \in 1..2 : Press("mouse", i) /\ UNCHANGED appVars
  \/ Release("mouse") /\ UNCHANGED appVars

ColorSpec == Init /\ [][ColorNext]_vars

FairSpec ==
  /\ Init
  /\ [][FairNext]_vars
  /\ \A g \in 1..MaxGen : WF_vars(g <= Len(sims) /\ Tick(g) /\ UNCHANGED appVars)
----------------------------------------------------------------------------
\* Vocabulary of the claims.

\* pointer p was released by this step
Released(p) == gestures[p] # NoGesture /\ gestures'[p] = NoGesture

\* the node object a gesture holds
Held(p) == sims[gestures[p].sim].nodes[gestures[p].node]

Pinned(ss) == {<<g, i>> \in (1..Len(ss)) \X (1..2) : i <= Len(ss[g].nodes) /\ ss[g].nodes[i].fx # Null}

DataFields == {"id", "label", "group", "description"}

----------------------------------------------------------------------------
C2_DragNeverSelects ==
  [][\A p \in Pointers :
       (Released(p) /\ gestures[p].maxd > 0) => onNodeClick' = <<>>]_vars

\* a press moved 3px away has just been released on a node whose visual is
\* still in the svg, and no callback ran
C2_Witness ==
  /\ last.op = "release"
  /\ last.maxd = 3
  /\ last.sim = svg
  /\ onNodeClick = <<>>

\* C3: a step that delivers a node click calls the callback exactly once, in
\* that step, with the whole node object of the clicked node: its id, label,
\* group and description are those of the node the pointer was pressed on.
C3_CallbackOnceWithNode ==
  [][/\ Len(onNodeClick') <= 1
     /\ \A p \in Pointers :
          (Released(p) /\ gestures[p].maxd = 0 /\ svg = gestures[p].sim) =>
            /\ Len(onNodeClick') = 1
            /\ DataFields \subseteq DOMAIN onNodeClick'[1]
            /\ \A f \in DataFields : onNodeClick'[1][f] = Held(p)[f]
     /\ onNodeClick' # <<>> => \E p \in Pointers : Released(p)]_vars

\* the callback has just received the node Foreigners with its description
C3_Witness ==
  /\ last.op = "release"
  /\ Len(onNodeClick) = 1
  /\ onNodeClick[1].id = "Foreigners"
  /\ onNodeClick[1].description = Foreigners.description

\* C4: a node is pinned only while a drag session holds it: every pinned node
\* of every simulation is the node of a gesture in progress, so with no
\* gesture in progress nothing is pinned.
C4_PinnedOnlyWhileDragged ==
  \A gi \in Pinned(sims) :
    \E p \in Pointers : gestures[p].sim = gi[1] /\ gestures[p].node = gi[2]

\* two sessions held nodes; one has ended and released its pin while the other
\* still pins its node
C4_Witness ==
  /\ last.op = "release"
  /\ Cardinality(Pinned(sims)) = 1
  /\ \E p \in Pointers : gestures[p] # NoGesture

\* C5: a simulation that a cleanup has stopped never ticks again: no step is a
\* tick of a stopped simulation.
C5_StoppedNeverTicks ==
  [][\A g \in 1..Len(sims) : sims[g].stopped => ~Tick(g)]_vars

\* C6: at most one simulation's timer is running at any moment.
C6_AtMostOneTicking ==
  Cardinality({g \in 1..Len(sims) : sims[g].running}) <= 1

\* C7: a resize keeps the position of every node of the displayed simulation.
C7_ResizeKeepsPositions ==
  [][(last'.op = "resize" /\ svg # 0 /\ svg' # 0) =>
       \A i \in 1..Len(sims[svg].nodes) :
         sims'[svg'].nodes[i].x = sims[svg].nodes[i].x]_vars

\* C8: while the GraphData has no nodes the svg holds no visuals, no
\* simulation is running and no error was raised.
C8_EmptyRendersNothing ==
  Len(data.nodes) = 0 =>
    /\ svg = 0
    /\ \A g \in 1..Len(sims) : ~sims[g].running
    /\ ~crashed

ValidLink(d, l) == l.source \in Ids(d) /\ l.target \in Ids(d)

\* C9: a GraphData with a link to an absent node id raises no error, and when
\* it is displayed its nodes and its valid links, and only those, are rendered.
C9_DanglingLinkDropped ==
  NodeNotFound(data) =>
    /\ ~crashed
    /\ mounted =>
         /\ svg # 0
         /\ {sims[svg].nodes[i].id : i \in 1..Len(sims[svg].nodes)} = Ids(data)
         /\ sims[svg].links = SelectSeq(data.links, LAMBDA l : ValidLink(data, l))

\* this step built a simulation for a new GraphData value
Rebuilt == last'.op = "data" /\ Len(sims') > Len(sims)

\* C10 (as stated): a node of the new graph whose id was pinned in the graph
\* displayed before keeps a pin in the rebuilt simulation.
C10_PinnedKeepsPin ==
  [][(Rebuilt /\ svg # 0 /\ svg' = Len(sims')) =>
       \A i \in 1..Len(sims'[svg'].nodes) : \A j \in 1..Len(sims[svg].nodes) :
         (sims[svg].nodes[j].id = sims'[svg'].nodes[i].id /\ sims[svg].nodes[j].fx # Null)
           => sims'[svg'].nodes[i].fx # Null]_vars

\* C10 (amended): the simulation built for a new GraphData value starts from
\* scratch: every node has no pin and no velocity, and sits at its initial
\* position, whatever was pinned or placed in the graph displayed before.
C10_RebuiltFromScratch ==
  [][Rebuilt =>
       LET new == sims'[Len(sims')] IN
       /\ Len(new.nodes) = Len(data'.nodes)
       /\ \A i \in 1..Len(new.nodes) :
            /\ new.nodes[i].id = data'.nodes[i].id
            /\ new.nodes[i].fx = Null
            /\ new.nodes[i].vx = 0
            /\ svg' = Len(sims') => new.nodes[i].x = InitialX(i)]_vars

\* a new graph has just been displayed while a gesture still pins, in the
\* simulation it replaced, a node whose id the new graph has too: the new node
\* has no pin
C10_Witness ==
  /\ last.op = "data"
  /\ svg = Len(sims)
  /\ \E p \in Pointers :
       /\ gestures[p].sim \notin {0, svg}
       /\ Held(p).fx # Null
       /\ \E i \in 1..Len(sims[svg].nodes) :
            sims[svg].nodes[i].id = Held(p).id /\ sims[svg].nodes[i].fx = Null

----------------------------------------------------------------------------
\* Vocabulary of the viewport claims.

ZoomOps == {"wheel", "panpress", "panmove", "panrelease"}
DragOps == {"press", "move", "release"}
RebuildOps == {"data", "resize", "mount"}

\* C11: after any sequence of wheel, pinch and pan gestures the viewport scale,
\* both the one the zoom behaviour holds and the one on display, lies within
\* [0.1, 4].
C11_ScaleWithinExtent ==
  /\ MinScale <= zoom.k /\ zoom.k <= MaxScale
  /\ MinScale <= transform.k /\ transform.k <= MaxScale

\* the viewport was panned and then zoomed in to the upper end of the extent,
\* from a scale at which one more wheel step would leave the extent
C11_Witness ==
  /\ last.op = "wheel"
  /\ zoom.x # 0
  /\ zoom.k = MaxScale
  /\ transform.k = MaxScale

\* C12: a zoom or pan gesture step leaves every simulation as it was (every
\* node's position, velocity and pin, alpha, alphaTarget and the timer) and
\* every drag session; it changes only the transform.
C12_ZoomLeavesSimulation ==
  [][last'.op \in ZoomOps => (sims' = sims /\ gestures' = gestures)]_vars

\* the wheel has just zoomed the display while the displayed simulation is
\* hot and a node of it has a velocity
C12_Witness ==
  /\ last.op = "wheel"
  /\ transform # zoomIdentity
  /\ svg # 0
  /\ sims[svg].running
  /\ \E i \in 1..Len(sims[svg].nodes) : sims[svg].nodes[i].vx # 0

\* C13: a rebuild of the simulation (a GraphData replacement, a resize) leaves
\* the displayed transform unchanged, and whenever the graph is on display the
\* displayed transform is the one the zoom behaviour holds.
C13_TransformOnlyByGestures ==
  [][/\ (last'.op \in RebuildOps /\ svg # 0) => transform' = transform
     /\ svg' # 0 => transform' = zoom']_vars

\* C14: a press, move or release of a node-drag session leaves the viewport
\* (the held and the displayed transform, and the pan gesture) unchanged; a
\* press, move or release on the empty canvas leaves every drag session and
\* every simulation unchanged, so it starts no session and pins or moves no
\* node, and each of its moves changes the translation.
C14_RoutedByTarget ==
  [][/\ last'.op \in DragOps => (zoom' = zoom /\ transform' = transform /\ pan' = pan)
     /\ last'.op \in {"panpress", "panmove", "panrelease"} =>
          (gestures' = gestures /\ sims' = sims)
     /\ last'.op = "panmove" => (zoom'.x # zoom.x /\ zoom'.k = zoom.k)]_vars

\* the canvas was dragged, which panned the viewport and pinned nothing, and
\* a node is now being dragged, which pins it and leaves the translation
C14_Witness ==
  /\ last.op = "move"
  /\ zoom.x # 0
  /\ transform = zoom
  /\ gestures["mouse"].sim = svg
  /\ Held("mouse").fx # Null

----------------------------------------------------------------------------
\* Vocabulary of the drag and tick claims.

\* simulation g cooled below alphaMin and its timer stopped on its own
Settled(g) == ~sims[g].running /\ ~sims[g].stopped /\ sims[g].alpha = 0

NoSession == \A p \in Pointers : gestures[p] = NoGesture

\* C15: a press on a node of a simulation that has settled (its timer stopped
\* on its own, below alphaMin) raises the target and restarts the timer: the
\* simulation ticks again.
C15_SettledReheats ==
  [][\A p \in Pointers : \A i \in 1..2 :
       (last'.op = "press" /\ svg # 0 /\ Settled(svg) /\ Press(p, i)) =>
         (sims'[svg].running /\ sims'[svg].alphaTarget = AlphaTargetDrag)]_vars

\* a node of the displayed simulation has just been pressed after the
\* simulation had cooled to alpha 0: its timer runs again
C15_Witness ==
  /\ last.op = "press"
  /\ svg # 0
  /\ ~sims[svg].stopped
  /\ sims[svg].alpha = 0
  /\ sims[svg].running

\* C17: every drag start, also one that begins while another session is
\* active, pins the pressed node at the event's coordinate (the node's
\* position) and leaves the simulation reheated: target raised and timer
\* running.
C17_DragStartPinsAndReheats ==
  [][\A p \in Pointers : \A i \in 1..2 :
       (last'.op = "press" /\ Press(p, i)) =>
         /\ sims'[svg].nodes[i].fx = <<sims[svg].nodes[i].x>>
         /\ sims'[svg].alphaTarget = AlphaTargetDrag
         /\ sims'[svg].running]_vars

\* C18: a pointer move of a drag session sets the pin of the session's node
\* to the event's coordinate and changes nothing else in any simulation; and
\* no press, move or release writes a velocity, a position, the pin of a node
\* other than its own, or a link.
C18_DragWritesOnlyPin ==
  [][/\ \A p \in Pointers : \A x \in Coord : \A dist \in Distances :
          (last'.op = "move" /\ Move(p, x, dist)) =>
            sims' = [sims EXCEPT ![gestures[p].sim].nodes[gestures[p].node].fx = <<x>>]
     /\ last'.op \in DragOps =>
          \A g \in 1..Len(sims) :
            Len(sims'[g].nodes) = Len(sims[g].nodes) =>
              /\ sims'[g].links = sims[g].links
              /\ \A i \in 1..Len(sims[g].nodes) :
                   /\ sims'[g].nodes[i].x = sims[g].nodes[i].x
                   /\ sims'[g].nodes[i].vx = sims[g].nodes[i].vx
                   /\ sims'[g].nodes[i].fx # sims[g].nodes[i].fx =>
                        \E p \in Pointers :
                          \/ gestures[p].sim = g /\ gestures[p].node = i
                          \/ gestures'[p].sim = g /\ gestures'[p].node = i]_vars

\* a pointer has just moved a node that still has the velocity of the last
\* tick, while the other node of the displayed simulation is pinned by the
\* other pointer
C18_Witness ==
  /\ last.op = "move"
  /\ \E p \in Pointers : \E q \in Pointers \ {p} :
       /\ gestures[p].sim = svg
       /\ gestures[q].sim = svg
       /\ gestures[q].node # gestures[p].node
       /\ Held(p).vx # 0
       /\ Held(p).fx # <<Held(p).x>>
       /\ Held(q).fx # Null

\* C19: while a drag session holds a node of a simulation, the simulation
\* keeps the raised target and no tick stops its timer; the release that ends
\* the last session of a simulation lowers its target to 0; and once no
\* session is left and only ticks happen, every simulation eventually stops
\* ticking for good.
C19_HotWhileDraggedThenSettles ==
  /\ [](\A g \in 1..Len(sims) : Active(gestures, g) > 0 => sims[g].alphaTarget = AlphaTargetDrag)
  /\ [][\A g \in 1..Len(sims) :
          /\ (last'.op = "tick" /\ Active(gestures, g) > 0 /\ Tick(g)) => sims'[g].running
          /\ (Active(gestures, g) > 0 /\ Active(gestures', g) = 0) => sims'[g].alphaTarget = 0]_vars
  /\ (<>[]NoSession /\ <>[][last'.op = "tick"]_vars)
       => <>[](\A g \in 1..Len(sims) : ~sims[g].running)

\* the last drag session has just ended: the simulation, kept at the raised
\* target while the node was held, has its target back at 0 and still ticks
C19_Witness ==
  /\ last.op = "release"
  /\ NoSession
  /\ sims[last.sim].running
  /\ sims[last.sim].alpha = AlphaTargetDrag
  /\ sims[last.sim].alphaTarget = 0

\* C20: a tick of the displayed simulation leaves every pinned node on its
\* pin with velocity 0 and its pin unchanged, whatever the forces computed;
\* only a node without a pin ends the tick at a position the integration gave
\* it.
C20_TickKeepsPinned ==
  [][\A g \in 1..Len(sims) :
       (last'.op = "tick" /\ g = svg /\ Tick(g)) =>
         \A i \in 1..Len(sims[g].nodes) :
           /\ sims[g].nodes[i].fx # Null =>
                /\ sims'[g].nodes[i].x = sims[g].nodes[i].fx[1]
                /\ sims'[g].nodes[i].vx = 0
                /\ sims'[g].nodes[i].fx = sims[g].nodes[i].fx
           /\ sims'[g].nodes[i].vx # 0 => sims[g].nodes[i].fx = Null]_vars

\* a tick has just put a dragged node on its pin, away from where the node
\* was pressed, while the other node moved with a velocity
C20_Witness ==
  /\ last.op = "tick"
  /\ svg # 0
  /\ \E p \in Pointers :
       /\ gestures[p].sim = svg
       /\ Held(p).fx = <<Held(p).x>>
       /\ Held(p).x # gestures[p].sx
       /\ Held(p).vx = 0
       /\ \E j \in 1..Len(sims[svg].nodes) :
            sims[svg].nodes[j].fx = Null /\ sims[svg].nodes[j].vx # 0

----------------------------------------------------------------------------
\* Vocabulary of the retry claims.

\* the failures the specification calls rate-limit errors
RateLimitErrors == {StatusError, CodeError, Message429, MessageQuota, MessageExhausted}

Backoff == <<2000, 4000, 8000>>

----------------------------------------------------------------------------
\* Vocabulary of the rendering claims.

Gray == "#94a3b8"

\* the placement the svg's visuals have matches the simulation s: every node
\* visual at its node's x, every line from its source's x to its target's x,
\* every link label at the midpoint of the two (labels are counted in halves)
Matches(at, s) ==
  /\ at # Null
  /\ Len(at.nodes) = Len(s.nodes)
  /\ \A i \in 1..Len(s.nodes) : at.nodes[i] = s.nodes[i].x
  /\ Len(at.links) = Len(s.links)
  /\ Len(at.labels) = Len(s.links)
  /\ \A k \in 1..Len(s.links) :
       \E i \in 1..Len(s.nodes) : \E j \in 1..Len(s.nodes) :
         /\ s.nodes[i].id = s.links[k].source
         /\ s.nodes[j].id = s.links[k].target
         /\ at.links[k] = <<s.nodes[i].x, s.nodes[j].x>>
         /\ at.labels[k] = s.nodes[i].x + s.nodes[j].x

\* C21: after each tick of the displayed simulation the rendered primitives
\* match the simulation's new state: node visuals at their nodes, lines
\* between their ends' positions, link labels at the midpoints.
C21_DrawnMatchesSimulation ==
  [][\A g \in 1..Len(sims) :
       (last'.op = "tick" /\ g = svg /\ Tick(g)) => Matches(drawn'.at, sims'[g])]_vars

\* a tick has just moved both ends of the link of the displayed graph away
\* from where they started, and the visuals are where the nodes are
C21_Witness ==
  /\ last.op = "tick"
  /\ svg # 0
  /\ Len(sims[svg].links) = 1
  /\ \A i \in 1..2 : sims[svg].nodes[i].x # InitialX(i)
  /\ drawn.at # Null
  /\ drawn.at.links[1] = <<sims[svg].nodes[1].x, sims[svg].nodes[2].x>>
  /\ drawn.at.labels[1] = sims[svg].nodes[1].x + sims[svg].nodes[2].x

\* C22: the render pass of a tick writes nothing to the simulation: after a
\* tick of the displayed simulation its state is exactly what d3-force's step
\* made of it for some velocities, with the links and the pins as they were.
C22_RenderOnlyReads ==
  [][\A g \in 1..Len(sims) :
       (last'.op = "tick" /\ g = svg /\ Tick(g)) =>
         /\ \E v \in Velocities(sims[g]) : sims'[g] = step(sims[g], v)
         /\ sims'[g].links = sims[g].links
         /\ \A i \in 1..Len(sims[g].nodes) : sims'[g].nodes[i].fx = sims[g].nodes[i].fx]_vars

\* a tick has just been rendered for a simulation in which one node moves
\* with a velocity and the other is pinned
C22_Witness ==
  /\ last.op = "tick"
  /\ svg # 0
  /\ drawn.at # Null
  /\ \E i \in 1..Len(sims[svg].nodes) : sims[svg].nodes[i].vx # 0
  /\ \E i \in 1..Len(sims[svg].nodes) : sims[svg].nodes[i].fx # Null

\* C23: the colour of every node visual is the palette entry of its node's
\* group when the group is one of the eight palette categories, and the
\* neutral gray for any other group value.
C23_ColorByGroup ==
  svg # 0 =>
    \A i \in 1..Len(sims[svg].nodes) :
      drawn.color[i] = IF sims[svg].nodes[i].group \in DOMAIN GROUP_COLORS
                         THEN GROUP_COLORS[sims[svg].nodes[i].group]
                         ELSE Gray

C28_RetryTerminates ==
  /\ [](retry.calls <= DefaultRetries + 1)
  /\ [](retry.pc = "thrown" =>
          /\ retry.errors # <<>>
          /\ retry.thrown = <<retry.errors[Len(retry.errors)]>>)
  /\ (retry.pc \in {"calling", "waiting"}) ~> (retry.pc \in {"returned", "thrown"})

\* four calls, each rejected with a rate-limit error, and the last one thrown
C28_Witness ==
  /\ retry.pc = "thrown"
  /\ retry.calls = DefaultRetries + 1
  /\ \A k \in 1..Len(retry.errors) : isRateLimit(retry.errors[k])
  /\ retry.errors[1] # retry.errors[4]
  /\ retry.thrown = <<retry.errors[4]>>

----------------------------------------------------------------------------
\* Vocabulary of the application claims.

\* node n, as handed to onNodeClick, is a node of GraphData d
NodeOf(n, d) ==
  \E i \in 1..Len(d.nodes) : \A f \in DataFields : d.nodes[i][f] = n[f]

\* the id of the table a run has generated
TableOf(proc) == proc.tables[Len(proc.tables)]

\* C25: selectedNode is null or a node of the GraphData currently displayed,
\* whatever node clicks, policy searches and scraping runs have happened.
C25_SelectedNodeOfGraph ==
  app.selectedNode # Null => NodeOf(app.selectedNode[1], data)

\* C26: when a scraping run completes successfully, also one that overlapped
\* with another run, the table it generated is in tables, so that the
\* datasetId of the task it added is the id of a table present.
C26_RunKeepsItsTable ==
  [][\A k \in 1..Len(procs) :
       (procs[k].kind = "run" /\ schemaResolved(k, SchemaGraph)) =>
         \E j \in 1..Len(app'.tables) : app'.tables[j] = TableOf(procs[k])]_vars

\* C27: at most one policy search is in flight, and while one is in flight
\* the submit control of the policy form is disabled.
C27_OneSearchInFlight ==
  /\ Cardinality(Running("search")) <= 1
  /\ (Running("search") # {} /\ app.appMode = "policy") => SearchDisabled

\* C29: when a service of a policy search rejects, the step that handles it
\* leaves graphData as it was (and sources and rawSummary too, when it was
\* searchPolicies that failed), sets status.step to 'error', and ends the
\* search: no continuation of it is left that could set 'complete'.
C29_FailedSearchKeepsGraph ==
  [][\A k \in 1..Len(procs) : \A error \in ServiceErrors :
       (procs[k].kind = "search" /\ rejected(k, error)) =>
         /\ data' = data
         /\ procs[k].pc = "searchPolicies" =>
              (app'.sources = app.sources /\ app'.rawSummary = app.rawSummary)
         /\ app'.status.step = "error"
         /\ procs' = Remove(procs, k)]_vars

\* structurePolicyData has failed after searchPolicies succeeded: the sources
\* are new, the graph is the initial one, the status is the error's message
C29_Witness ==
  /\ app.status = Status("error", JsonError.message)
  /\ app.sources = FoundSources
  /\ data = INITIAL_GRAPH
  /\ procs = <<>>

\* C30: an error that retryWithBackoff classified as a rate-limit error and
\* threw is reported as 'API 한도 초과' (RateLimitMessage); every other error is
\* reported with its own message, or '오류 발생' (DefaultMessage) without one.
C30_RateLimitReported ==
  retry.pc = "handled" =>
    LET error == retry.thrown[1] IN
    app.status =
      Status("error",
             IF isRateLimit(error) THEN RateLimitMessage
             ELSE IF error.message # Null THEN error.message
             ELSE DefaultMessage)
====
